---------------------------- MODULE Spec2Model ----------------------------
(***************************************************************************)
(* A model of halotools' occupation, quenching and NFW-profile components  *)
(* (halo_occupation.py, halo_profile_components.py).                       *)
(*                                                                         *)
(* Numbers.  The Python code computes with floats; the model computes with *)
(* integers in fixed units:                                                *)
(*   - luminosity thresholds in quarter magnitudes (-18.5 is -74),         *)
(*   - the Zheng07 parameters and log masses in hundredths of a dex        *)
(*     (11.35 is 1135), alpha_sat in hundredths,                           *)
(*   - occupation numbers and erf values in thousandths,                   *)
(*   - halo masses in units of 10^10 (MassUnitDex).                        *)
(* Python values are records [kind, v]: kind is the Python type and v the  *)
(* sequence of the value's numbers (one number for a scalar).              *)
(***************************************************************************)
EXTENDS Integers, Sequences, FiniteSets, TLC

(***************************************************************************)
(* Bounds of the model.                                                    *)
(***************************************************************************)
\* The longest log-mass array passed to an evaluation function.
MaxLen == 2
\* The largest number of control points of a quenching model.
MaxPts == 2
\* The threads sharing one NFWProfile instance.
NThreads == 2
\* The table builds started on one NFWProfile instance.
MaxBuilds == 2

(***************************************************************************)
(* Arithmetic helpers.                                                     *)
(***************************************************************************)
Abs(x) == IF x < 0 THEN -x ELSE x

\* Division rounding toward zero.
IDiv(a, b) ==
    IF b = 0 THEN 0
    ELSE IF (a >= 0) = (b > 0) THEN Abs(a) \div Abs(b)
    ELSE -(Abs(a) \div Abs(b))

RECURSIVE IPow(_, _)
IPow(b, n) == IF n <= 0 THEN 1 ELSE b * IPow(b, n - 1)

\* All sequences over S of length 0..n.
SeqsOver(S, n) == UNION {[1..k -> S] : k \in 0..n}

(***************************************************************************)
(* Python values.                                                          *)
(***************************************************************************)
PyNone == [kind |-> "None", v |-> <<>>]
PyFloat(x) == [kind |-> "float", v |-> <<x>>]
PyInt(x) == [kind |-> "int", v |-> <<x>>]
PyBool(x) == [kind |-> "bool", v |-> <<x>>]
PyStr == [kind |-> "str", v |-> <<>>]
NpFloat64(x) == [kind |-> "numpy.float64", v |-> <<x>>]
NdArray(s) == [kind |-> "ndarray", v |-> s]
NdArray0d(x) == [kind |-> "ndarray0d", v |-> <<x>>]
PyList(s) == [kind |-> "list", v |-> s]

\* isinstance(x, np.ndarray): a zero-dimensional array is an ndarray too.
IsNdarray(x) == x.kind \in {"ndarray", "ndarray0d"}
\* isinstance(x, int): bool is a subclass of int.
IsInstanceInt(x) == x.kind \in {"int", "bool"}
\* isinstance(x, float): numpy.float64 is a subclass of float.
IsInstanceFloat(x) == x.kind \in {"float", "numpy.float64"}
\* len(x) is defined for a list and for an array of one dimension.
HasLen(x) == x.kind \in {"ndarray", "list"}
\* The scalars of the claims: a number that is no sequence and no array.
IsScalar(x) == x.kind \in {"float", "int", "numpy.float64"}

(***************************************************************************)
(* Results of a call: raised is "" or the exception class, val the numbers *)
(* returned, each over the denominator den.                                *)
(***************************************************************************)
Returned(s) == [raised |-> "", msg |-> "", val |-> s, den |-> 1]
Raised(cls, m) == [raised |-> cls, msg |-> m, val |-> <<>>, den |-> 1]
\* Numbers returned as the fractions val[i]/d.
ReturnedOver(s, d) == [raised |-> "", msg |-> "", val |-> s, den |-> d]

(***************************************************************************)
(* scipy.special.erf, in thousandths, of an argument in thousandths:       *)
(* linear interpolation between the tabulated values at multiples of 0.25; *)
(* odd, erf(0) = 0, and 1 beyond 3.                                         *)
(***************************************************************************)
ErfKnots == <<0, 276, 520, 711, 843, 923, 966, 987, 995, 999, 1000, 1000, 1000>>

ErfKnotStep == 250

ErfPos(z) ==
    LET k == z \div ErfKnotStep
    IN  IF k + 2 > Len(ErfKnots) THEN 1000
        ELSE ErfKnots[k + 1]
             + ((ErfKnots[k + 2] - ErfKnots[k + 1]) * (z % ErfKnotStep)) \div ErfKnotStep

erf(z) == IF z < 0 THEN -ErfPos(-z) ELSE ErfPos(z)

(***************************************************************************)
(* Zheng07_HOD_Model.published_parameters                                  *)
(***************************************************************************)
\* Zheng et al. 2007, Table 1 (hundredths).
logMmin_cen_array == <<1135, 1146, 1160, 1175, 1202, 1230, 1279, 1338, 1422>>
sigma_logM_array == <<25, 24, 26, 28, 26, 21, 39, 51, 77>>
logM0_array == <<1120, 1059, 1149, 1169, 1138, 1184, 1192, 1394, 1400>>
logM1_array == <<1240, 1268, 1283, 1301, 1331, 1358, 1394, 1391, 1469>>
alpha_sat_array == <<83, 97, 102, 106, 106, 112, 115, 104, 87>>

\* np.arange(start, stop, step): start, start+step, ... below stop.
Arange(start, stop, step) ==
    LET n == IF stop <= start THEN 0 ELSE ((stop - start) + step - 1) \div step
    IN  [i \in 1..n |-> start + (i - 1) * step]

\* s[::-1]
Reversed(s) == [i \in 1..Len(s) |-> s[Len(s) + 1 - i]]

\* The thresholds left in np.arange's ascending order.
threshold_array_ascending == Arange(-88, -70, 2)

\* np.arange(-22,-17.5,0.5)[::-1], in quarter magnitudes.
threshold_array == Reversed(Arange(-88, -70, 2))

\* np.where(arr == x)[0]: the (1-based) positions of x in arr, ascending.
RECURSIVE WhereEqFrom(_, _, _)
WhereEqFrom(arr, x, i) ==
    IF i > Len(arr) THEN <<>>
    ELSE (IF arr[i] = x THEN <<i>> ELSE <<>>) \o WhereEqFrom(arr, x, i + 1)

WhereEq(arr, x) == WhereEqFrom(arr, x, 1)

NoDict ==
    [logMmin_cen |-> 0, sigma_logM |-> 0, logM0_sat |-> 0, logM1_sat |-> 0,
     alpha_sat |-> 0, fconc |-> 0]

TableRow(i) ==
    [logMmin_cen |-> logMmin_cen_array[i], sigma_logM |-> sigma_logM_array[i],
     logM0_sat |-> logM0_array[i], logM1_sat |-> logM1_array[i],
     alpha_sat |-> alpha_sat_array[i], fconc |-> 100]

DefaultThreshold == -78

MsgNotScalar == "Input luminosity threshold must be a scalar"
MsgNoMatch == "Input luminosity threshold does not match any of the Table 1 values of Zheng et al. 2007."
MsgUnspecified == "HOD threshold unspecified: setting to -19.5"

\* The exception class of the failed table lookup (line 231).
LookupFailure == Raised("TypeError", MsgNoMatch)

\* float(threshold) in quarter magnitudes: True is 1.0.
Float(threshold) == IF threshold.kind = "bool" THEN 4 * threshold.v[1] ELSE threshold.v[1]

\* The default substituted without a warning.
ThresholdStepSilent(threshold) ==
    IF threshold.kind = "None"
    THEN [ok |-> TRUE, threshold |-> -78, warned |-> <<>>]
    ELSE IF IsInstanceInt(threshold) \/ IsInstanceFloat(threshold)
    THEN [ok |-> TRUE, threshold |-> Float(threshold), warned |-> <<>>]
    ELSE [ok |-> FALSE, threshold |-> 0, warned |-> <<>>]

\* Lines 199-207: the threshold the method stores in self.threshold, the
\* warnings it emits, and whether the type check let it through.
ThresholdStep(threshold) ==
    IF threshold.kind = "None"
    THEN [ok |-> TRUE, threshold |-> DefaultThreshold, warned |-> <<MsgUnspecified>>]
    ELSE IF IsInstanceInt(threshold) \/ IsInstanceFloat(threshold)
    THEN [ok |-> TRUE, threshold |-> Float(threshold), warned |-> <<>>]
    ELSE [ok |-> FALSE, threshold |-> 0, warned |-> <<>>]

\* published_parameters(threshold): what it returns or raises, self.threshold
\* as it leaves it, and the warnings emitted.
published_parameters(threshold) ==
    LET st == ThresholdStep(threshold)
        threshold_index == WhereEq(threshold_array, st.threshold)
    IN  IF ~st.ok
        THEN [res |-> Raised("TypeError", MsgNotScalar), dict |-> NoDict,
              set_threshold |-> FALSE, threshold |-> 0, warned |-> st.warned]
        ELSE IF Len(threshold_index) = 1
        THEN [res |-> Returned(<<>>), dict |-> TableRow(threshold_index[1]),
              set_threshold |-> TRUE, threshold |-> st.threshold, warned |-> st.warned]
        ELSE [res |-> LookupFailure, dict |-> NoDict,
              set_threshold |-> TRUE, threshold |-> st.threshold, warned |-> st.warned]


(***************************************************************************)
(* Zheng07_HOD_Model.__init__                                              *)
(***************************************************************************)
NoHod == [exists |-> FALSE, parameter_dict |-> NoDict, has_threshold |-> FALSE, threshold |-> 0]

\* given: whether a parameter_dict was passed; dict: the one passed.
Zheng07Init(given, dict, threshold) ==
    IF ~given
    THEN LET p == published_parameters(threshold)
         IN  IF p.res.raised = ""
             THEN [res |-> Returned(<<>>), warned |-> p.warned,
                   self |-> [exists |-> TRUE, parameter_dict |-> p.dict,
                             has_threshold |-> p.set_threshold, threshold |-> p.threshold]]
             ELSE [res |-> p.res, warned |-> p.warned, self |-> NoHod]
    ELSE [res |-> Returned(<<>>), warned |-> <<>>,
          self |-> [exists |-> TRUE, parameter_dict |-> dict,
                    has_threshold |-> FALSE, threshold |-> 0]]

(***************************************************************************)
(* Zheng07_HOD_Model.mean_ncen                                             *)
(***************************************************************************)
MsgNotArray == "Input logM to mean_ncen must be a numpy array"
MsgNoLen == "object has no len()"
MsgNoPow == "unsupported operand type(s) for ** or pow()"

\* 0.5*(1.0 + erf((logM - logMmin_cen)/sigma_logM)) of one element, in thousandths.
MeanNcenAt(pd, x) ==
    (1000 + erf(IDiv((x - pd.logMmin_cen) * 1000, pd.sigma_logM))) \div 2

mean_ncen(pd, logM) ==
    IF ~IsNdarray(logM)
    THEN Raised("TypeError", MsgNotArray)
    ELSE Returned([i \in 1..Len(logM.v) |-> MeanNcenAt(pd, logM.v[i])])

(***************************************************************************)
(* Zheng07_HOD_Model.mean_nsat                                             *)
(***************************************************************************)
\* The log mass, in hundredths of a dex, of the unit of mass.
MassUnitDex == 1000

\* 10.**x in units of mass, for x a whole number of dex at or above the unit.
Pow10(x) == IPow(10, (x - MassUnitDex) \div 100)

IsWholeDex(x) == x >= MassUnitDex /\ x % 100 = 0

\* The parameter sets and arrays mean_nsat's arithmetic is exact for.
Representable(pd, logM) ==
    /\ IsWholeDex(pd.logM0_sat) /\ IsWholeDex(pd.logM1_sat)
    /\ pd.alpha_sat >= 0 /\ pd.alpha_sat % 100 = 0
    /\ pd.sigma_logM > 0
    /\ \A i \in 1..Len(logM.v) : IsWholeDex(logM.v[i])

\* arr[mask]: the elements of arr where mask holds, in order.
RECURSIVE BoolIndex(_, _)
BoolIndex(arr, mask) ==
    IF arr = <<>> THEN <<>>
    ELSE (IF Head(mask) THEN <<Head(arr)>> ELSE <<>>) \o BoolIndex(Tail(arr), Tail(mask))

\* The number of positions 1..i where mask holds.
RECURSIVE CountTrue(_, _)
CountTrue(mask, i) ==
    IF i = 0 THEN 0 ELSE (IF mask[i] THEN 1 ELSE 0) + CountTrue(mask, i - 1)

\* dest[mask] = vals: the k-th position where mask holds takes vals[k].
MaskAssign(dest, mask, vals) ==
    [i \in 1..Len(dest) |-> IF mask[i] THEN vals[CountTrue(mask, i)] ELSE dest[i]]

\* The mask taken with >= in place of >.
idx_nonnegative_satellites(halo_mass, M0) ==
    [i \in 1..Len(halo_mass) |-> (halo_mass[i] - M0) >= 0]

idx_nonzero_satellites(halo_mass, M0) ==
    [i \in 1..Len(halo_mass) |-> (halo_mass[i] - M0) > 0]

mean_nsat(pd, logM) ==
    IF ~IsNdarray(logM)
    THEN Raised("TypeError", MsgNotArray)
    ELSE IF ~HasLen(logM)
    THEN Raised("TypeError", MsgNoLen)
    ELSE LET halo_mass == [i \in 1..Len(logM.v) |-> Pow10(logM.v[i])]
             M0 == Pow10(pd.logM0_sat)
             M1 == Pow10(pd.logM1_sat)
             alpha == pd.alpha_sat \div 100
             zeros == [i \in 1..Len(logM.v) |-> 0]
             idx == idx_nonzero_satellites(halo_mass, M0)
             ncen == mean_ncen(pd, NdArray(BoolIndex(logM.v, idx))).val
             mass == BoolIndex(halo_mass, idx)
             vals == [k \in 1..Len(mass) |->
                        IDiv(ncen[k] * IPow(mass[k] - M0, alpha), IPow(M1, alpha))]
         IN  Returned(MaskAssign(zeros, idx, vals))

(***************************************************************************)
(* anatoly_concentration, Zheng07_HOD_Model.mean_concentration             *)
(***************************************************************************)
\* 10**f in thousandths for f = 0, 0.1, ..., 1.
Pow10Knots == <<1000, 1259, 1585, 1995, 2512, 3162, 3981, 5012, 6310, 7943, 10000>>

\* 10**(e/1000) in thousandths, for -1000 <= e < 1000.
Pow10Frac(e) ==
    LET f == e % 1000
        k == f \div 100
        t == Pow10Knots[k + 1] + ((Pow10Knots[k + 2] - Pow10Knots[k + 1]) * (f % 100)) \div 100
    IN  IF e < 0 THEN t \div 10 ELSE t

\* The relation applied to a scalar as to an array of one element.
anatoly_concentration_broadcast(logM) ==
    Returned([i \in 1..Len(logM.v) |->
                (9600 * Pow10Frac(IDiv(-75 * (logM.v[i] - 1200), 100))) \div 1000])

\* c0*(masses/Mpiv)**a with c0 = 9.6, Mpiv = 1e12, a = -0.075, in thousandths:
\* (10**logM/10**12)**a is 10**(a*(logM - 12)).
anatoly_concentration(logM) ==
    IF ~HasLen(logM)
    THEN Raised("TypeError", MsgNoLen)
    ELSE IF ~IsNdarray(logM)
    THEN Raised("TypeError", MsgNoPow)
    ELSE Returned([i \in 1..Len(logM.v) |->
                     (9600 * Pow10Frac(IDiv(-75 * (logM.v[i] - 1200), 100))) \div 1000])

mean_concentration(logM) == anatoly_concentration(logM)


(***************************************************************************)
(* vdB03_Quenching_Model.  Its numbers are exact fractions: abscissas and  *)
(* log masses are whole numbers, ordinates are halves (FracUnit), and the  *)
(* coefficients of a polynomial are the numerators num[n] over one common  *)
(* denominator den.                                                        *)
(***************************************************************************)
FracUnit == 2

\* The n x n matrix (a sequence of rows) of a flat sequence: flat.reshape(n, n).
Reshape(flat, n) == [r \in 1..n |-> [c \in 1..n |-> flat[(r - 1) * n + c]]]

\* m.transpose()
Transpose(m) == [r \in 1..Len(m) |-> [c \in 1..Len(m) |-> m[c][r]]]

\* columns after the loop of lines 332-335: ones, then logM_abcissa**(i+1)
\* appended for i = 0 .. len-2.
RECURSIVE AppendPowers(_, _, _)
AppendPowers(columns, logM_abcissa, i) ==
    IF i >= Len(logM_abcissa) - 1 THEN columns
    ELSE AppendPowers(columns \o [k \in 1..Len(logM_abcissa) |-> IPow(logM_abcissa[k], i + 1)],
                      logM_abcissa, i + 1)

\* The matrix left untransposed.
quenching_model_matrix_untransposed(logM_abcissa) ==
    LET ones == [k \in 1..Len(logM_abcissa) |-> 0 + 1]
    IN  Reshape(AppendPowers(ones, logM_abcissa, 0), Len(logM_abcissa))

quenching_model_matrix(logM_abcissa) ==
    LET ones == [k \in 1..Len(logM_abcissa) |-> 0 + 1]
    IN  Transpose(Reshape(AppendPowers(ones, logM_abcissa, 0), Len(logM_abcissa)))

\* m without row 1 and column c.
Minor(m, c) ==
    [r \in 1..(Len(m) - 1) |->
        [k \in 1..(Len(m) - 1) |-> IF k < c THEN m[r + 1][k] ELSE m[r + 1][k + 1]]]

\* The determinant, expanded along the first row.
RECURSIVE Det(_)
RECURSIVE DetSum(_, _)
DetSum(m, c) ==
    IF c > Len(m) THEN 0
    ELSE (IF c % 2 = 1 THEN 1 ELSE -1) * m[1][c] * Det(Minor(m, c)) + DetSum(m, c + 1)

Det(m) == IF Len(m) = 1 THEN m[1][1] ELSE DetSum(m, 1)

\* m with column c replaced by the vector b.
ReplaceCol(m, c, b) ==
    [r \in 1..Len(m) |-> [k \in 1..Len(m) |-> IF k = c THEN b[r] ELSE m[r][k]]]

NoCoefficients == [num |-> <<>>, den |-> 1]

\* A solver that answers a singular system with zero coefficients.
LinalgSolveOrZeros(a, b) ==
    LET d == Det(a)
        sgn == IF d < 0 THEN -1 ELSE 1
    IN  IF d = 0
        THEN [raised |-> "", x |-> [num |-> [n \in 1..Len(a) |-> 0], den |-> 1]]
        ELSE [raised |-> "",
              x |-> [num |-> [n \in 1..Len(a) |-> sgn * Det(ReplaceCol(a, n, b))],
                     den |-> sgn * d]]

\* np.linalg.solve(a, b): the exact solution x of a x = b, as numerators over
\* the common denominator |det a|; LinAlgError when a is singular.
LinalgSolve(a, b) ==
    LET d == Det(a)
        sgn == IF d < 0 THEN -1 ELSE 1
    IN  IF d = 0
        THEN [raised |-> "LinAlgError", x |-> NoCoefficients]
        ELSE [raised |-> "",
              x |-> [num |-> [n \in 1..Len(a) |-> sgn * Det(ReplaceCol(a, n, b))],
                     den |-> sgn * d]]

solve_for_quenching_polynomial_coefficients(logM_abcissa, quenched_fractions) ==
    LinalgSolve(quenching_model_matrix(logM_abcissa), quenched_fractions)

NoQuenchDict == [logM_abcissa |-> <<>>, central_ordinates |-> <<>>, satellite_ordinates |-> <<>>]

NoQuench ==
    [exists |-> FALSE, parameter_dict |-> NoQuenchDict,
     central_quenching_polynomial_coefficients |-> NoCoefficients,
     satellite_quenching_polynomial_coefficients |-> NoCoefficients]

MsgSingular == "Singular matrix"

\* vdB03_Quenching_Model.__init__ with an explicit parameter_dict.
vdB03Init(parameter_dict) ==
    LET cen == solve_for_quenching_polynomial_coefficients(
                   parameter_dict.logM_abcissa, parameter_dict.central_ordinates)
        sat == solve_for_quenching_polynomial_coefficients(
                   parameter_dict.logM_abcissa, parameter_dict.satellite_ordinates)
    IN  IF cen.raised # ""
        THEN [res |-> Raised(cen.raised, MsgSingular), self |-> NoQuench]
        ELSE IF sat.raised # ""
        THEN [res |-> Raised(sat.raised, MsgSingular), self |-> NoQuench]
        ELSE [res |-> Returned(<<>>),
              self |-> [exists |-> TRUE, parameter_dict |-> parameter_dict,
                        central_quenching_polynomial_coefficients |-> cen.x,
                        satellite_quenching_polynomial_coefficients |-> sat.x]]

\* mean_quenched_fractions after the loop of lines 298-299, as numerators over
\* coefficients.den: the sum of coeff*logM**n over enumerate(coefficients).
RECURSIVE PolySum(_, _, _)
PolySum(num, x, n) ==
    IF n >= Len(num) THEN 0
    ELSE num[n + 1] * IPow(x, n) + PolySum(num, x, n + 1)

\* arr[mask] = value
MaskFill(arr, mask, value) == [i \in 1..Len(arr) |-> IF mask[i] THEN value ELSE arr[i]]

\* Only the elements below 0 clamped.
ClampNegativeOnly(fractions, den) ==
    MaskFill(fractions, [i \in 1..Len(fractions) |-> fractions[i] < 0], 0)

\* Lines 301-304 on numerators over den, in units of 1/FracUnit: the elements
\* below 0 are set to 0, then the elements above 1 are set to 1.
ClampToUnitInterval(fractions, den) ==
    LET test_negative == [i \in 1..Len(fractions) |-> fractions[i] < 0]
        nonneg == MaskFill(fractions, test_negative, 0)
        test_exceeds_unity == [i \in 1..Len(nonneg) |-> nonneg[i] > FracUnit * den]
    IN  MaskFill(nonneg, test_exceeds_unity, FracUnit * den)

\* The raw polynomial values of lines 296-299.
RawPolynomial(v, coefficients) ==
    [i \in 1..Len(v) |-> PolySum(coefficients.num, v[i], 0)]

quenching_polynomial(logM, coefficients) ==
    IF ~HasLen(logM)
    THEN Raised("TypeError", MsgNoLen)
    ELSE IF ~IsNdarray(logM)
    THEN Raised("TypeError", MsgNoPow)
    ELSE ReturnedOver(ClampToUnitInterval(RawPolynomial(logM.v, coefficients), coefficients.den),
                      FracUnit * coefficients.den)

mean_quenched_fraction_centrals(self, logM) ==
    quenching_polynomial(logM, self.central_quenching_polynomial_coefficients)

mean_quenched_fraction_satellites(self, logM) ==
    quenching_polynomial(logM, self.satellite_quenching_polynomial_coefficients)


(***************************************************************************)
(* NFWProfile.  Radii, concentrations, logarithms and g in thousandths.    *)
(***************************************************************************)
\* np.log(1 + t) in thousandths for t = 0, 1/8, ..., 1.
LnKnots == <<0, 118, 223, 318, 405, 486, 560, 629, 693>>

\* np.log(v/1000) in thousandths, for v >= 1000: halve v into [1000, 2000),
\* ln 2 for each halving, and interpolate between the knots.
RECURSIVE Ln(_)
Ln(v) ==
    IF v >= 2000 THEN 693 + Ln(v \div 2)
    ELSE LET t == v - 1000
             k == t \div 125
         IN  LnKnots[k + 1] + ((LnKnots[k + 2] - LnKnots[k + 1]) * (t % 125)) \div 125

\* NFWProfile.g: 1/(log(1+x) - x/(1+x))
g(x) ==
    LET denominator == Ln(1000 + x) - IDiv(x * 1000, 1000 + x)
    IN  IDiv(1000000, denominator)

\* NFWProfile.cumulative_mass_PDF for one radius: g(c)/g(r*c)
CumulativeMassPDFAt(r, c) == IDiv(g(c) * 1000, g(IDiv(r * c, 1000)))

cumulative_mass_PDF(r, c) == [i \in 1..Len(r) |-> CumulativeMassPDFAt(r[i], c)]

\* NFWProfile.rho_s: (delta_vir/3)*c*c*c*g(c)*cosmic_matter_density, in the
\* units of cosmic_matter_density.
rho_s(self, c) ==
    LET ccc == IDiv(IDiv(c * c, 1000) * c, 1000)
        shape == IDiv(IDiv(self.delta_vir, 3) * IDiv(ccc * g(c), 1000), 1000)
    IN  shape * self.cosmic_matter_density

\* NFWProfile.density_profile for one radius: rho_s(c)/((c*r)*(1 + c*r)*(1 + c*r))
DensityProfileAt(self, r, c) ==
    LET numerator == rho_s(self, c)
        cr == IDiv(c * r, 1000)
        denominator == IDiv(IDiv(cr * (1000 + cr), 1000) * (1000 + cr), 1000)
    IN  IDiv(numerator * 100, IDiv(denominator, 10))

MsgNoMul == "unsupported operand type(s) for *"

\* r*c and c*r are defined for an array and for a float r; for None they raise.
CanMultiply(r) == r.kind \in {"ndarray", "float"}

\* density_profile(r, c) with a float c: nothing is assigned to self or to r.
density_profile(self, r, c) ==
    IF ~CanMultiply(r)
    THEN Raised("TypeError", MsgNoMul)
    ELSE Returned([i \in 1..Len(r.v) |-> DensityProfileAt(self, r.v[i], c.v[1])])

\* cumulative_mass_PDF(r, c) with a float c: nothing is assigned to self or to r.
cumulative_mass_PDF_call(self, r, c) ==
    IF ~CanMultiply(r)
    THEN Raised("TypeError", MsgNoMul)
    ELSE Returned(cumulative_mass_PDF(r.v, c.v[1]))

\* np.linspace(a, b, n)
Linspace(a, b, n) ==
    [i \in 1..n |-> IF n = 1 THEN a ELSE a + IDiv((b - a) * (i - 1), n - 1)]

\* The grids of defaults.py.
default_Npts_radius_array == 3
default_min_rad == 250
default_Npts_concen_array == 2
min_permitted_conc == 1000
max_permitted_conc == 25000

\* UnivariateSpline(x, y): the fitted object, kept as the data it was fitted to.
spline(x, y) == [x |-> x, y |-> y]

\* Lines 197-216: the local conc_array and cumu_inv_funcs at the end of the loop.
BuildLocals ==
    LET radius_array == Linspace(default_min_rad, 1000, default_Npts_radius_array)
        conc_array == Linspace(min_permitted_conc, max_permitted_conc, default_Npts_concen_array)
    IN  [conc_array |-> conc_array,
         cumu_inv_funcs |-> [j \in 1..Len(conc_array) |->
                                spline(cumulative_mass_PDF(radius_array, conc_array[j]),
                                       radius_array)]]


\* HaloProfileModel.__init__: delta_vir is 360 whatever is passed; the matter
\* density is critical_density(0)/(H0/100)**2 * Om0, in units of 10^8 Msun/Mpc^3
\* (H0 in km/s/Mpc, Om0 in thousandths).
HaloProfileModelInit(self, cosmology) ==
    LET littleh == cosmology.H0
        crit_density == IDiv(cosmology.critical_density0 * 10000, littleh * littleh)
    IN  [self EXCEPT !.delta_vir = 360,
                     !.cosmic_matter_density = IDiv(crit_density * cosmology.Om0, 1000)]

NoNfw ==
    [exists |-> FALSE, delta_vir |-> 0, cosmic_matter_density |-> 0,
     has_func_table |-> FALSE, func_build |-> 0, cumu_inv_func_table |-> <<>>,
     has_conc_table |-> FALSE, conc_build |-> 0, cumu_inv_conc_table |-> <<>>]

\* Line 217, by the build numbered b.
StoreFuncTable(self, b) ==
    [self EXCEPT !.has_func_table = TRUE, !.func_build = b,
                 !.cumu_inv_func_table = BuildLocals.cumu_inv_funcs]

\* Line 218, by the build numbered b.
StoreConcTable(self, b) ==
    [self EXCEPT !.has_conc_table = TRUE, !.conc_build = b,
                 !.cumu_inv_conc_table = BuildLocals.conc_array]

\* NFWProfile.__init__: the table is built only when the flag is True itself.
NFWInit(cosmology, build_inv_cumu_table) ==
    LET fresh == HaloProfileModelInit([NoNfw EXCEPT !.exists = TRUE], cosmology)
    IN  IF build_inv_cumu_table.kind = "bool" /\ build_inv_cumu_table.v = <<1>>
        THEN StoreConcTable(StoreFuncTable(fresh, 1), 1)
        ELSE fresh

(***************************************************************************)
(* The arrays the evaluation functions store into.  mean_nsat and          *)
(* quenching_polynomial assign to elements of an array (lines 185-189,     *)
(* 298-304); the array is the one their local name is bound to.  The other *)
(* evaluation functions contain no assignment to an element or attribute.  *)
(***************************************************************************)
\* The array np.zeros makes: a new object, not the caller's.
np_zeros == "np.zeros"
\* The caller's own array.
caller_logM == "logM"

\* Line 184: mean_nsat = np.zeros(len(logM),dtype='f8')
mean_nsat_array == np_zeros
\* Line 296: mean_quenched_fractions = np.zeros(len(logM))
mean_quenched_fractions_array == np_zeros

\* The caller's logM when the call has ended with result res: the stores
\* reached it only if they went to the caller's own array.
LogMAfterStores(array, logM, res) ==
    IF array = caller_logM /\ res.raised = ""
    THEN [logM EXCEPT !.v = res.val]
    ELSE logM

(***************************************************************************)
(* The state: the model instance the caller holds (one at a time), the     *)
(* threads working on a shared NFWProfile, and the last call with its      *)
(* outcome.  The caller constructs a model when it holds none, calls its   *)
(* evaluation functions one at a time, taking each result before the next  *)
(* call, and may let the instance go.                                      *)
(***************************************************************************)
VARIABLES
    hod,        \* the Zheng07_HOD_Model instance
    quench,     \* the vdB03_Quenching_Model instance
    nfw,        \* the NFWProfile instance
    pc,         \* each thread's position in build_inv_cumu_lookup_table or a read
    building,   \* the number of the build each thread is running (0: none)
    obs,        \* what a thread in the middle of a read has read so far
    seen,       \* the last completed read of the lookup table
    nbuilds,    \* builds started on the NFWProfile instance
    out         \* the last call: its name, arguments, result and warnings

vars == <<hod, quench, nfw, pc, building, obs, seen, nbuilds, out>>

Threads == 1..NThreads

NoObs == [func_set |-> FALSE, func_build |-> 0, conc_set |-> FALSE, conc_build |-> 0,
          complete |-> FALSE]

\* arg is the first argument as it was passed, arg_after the same object when
\* the call has ended, c the concentration passed to a profile function.
Call(op, arg, given, pd, res, warned) ==
    [op |-> op, arg |-> arg, arg_after |-> arg, c |-> PyNone,
     given |-> given, pd |-> pd, res |-> res, warned |-> warned]

(***************************************************************************)
(* The inputs.                                                             *)
(***************************************************************************)
\* Thresholds: every quarter magnitude around the table, one far from it,
\* whole magnitudes as ints, and values of other types.
ThresholdInputs ==
    {PyNone, PyStr, PyBool(1), NpFloat64(-74), NdArray(<<-72>>)}
    \cup {PyFloat(q) : q \in (-90..-70) \cup {-120}}
    \cup {PyInt(4 * m) : m \in (-23..-17) \cup {-30}}

\* Explicit parameter sets: whole-dex masses and whole alpha_sat.
ExplicitDicts ==
    {[logMmin_cen |-> 1200, sigma_logM |-> 50, logM0_sat |-> m0, logM1_sat |-> 1100,
      alpha_sat |-> a, fconc |-> 100] : m0 \in {1100, 1200}, a \in {0, 100, 200}}

\* Log masses for the occupation model: whole dex, and the model's own logMmin_cen.
LogMValues == {1100, 1200, 1300} \cup {hod.parameter_dict.logMmin_cen}

\* Log masses and abscissas for the quenching model.
QuenchValues == 0..2

\* Ordinates for the quenching model, in units of 1/FracUnit: 0, 1 and 3/2.
OrdinateValues == {0, 2, 3}
SatelliteOrdinateValues == {0, 1}

\* The Python values passed as logM, over the numbers of S.
LogMInputs(S) ==
    {NdArray(a) : a \in SeqsOver(S, MaxLen)}
    \cup {PyFloat(x) : x \in S} \cup {PyInt(x) : x \in S} \cup {NpFloat64(x) : x \in S}
    \cup {NdArray0d(x) : x \in S} \cup {PyList(<<x>>) : x \in S}

QuenchDicts ==
    UNION {{[logM_abcissa |-> x, central_ordinates |-> c, satellite_ordinates |-> y] :
               x \in [1..n -> QuenchValues],
               c \in [1..n -> OrdinateValues],
               y \in [1..n -> SatelliteOrdinateValues]} : n \in 1..MaxPts}

\* The values passed as build_inv_cumu_table: True, False and the int 1.
BuildFlagInputs == {PyBool(1), PyBool(0), PyInt(1)}

\* Cosmologies: H0 = 70 with Om0 = 0.277, and H0 = 100 with Om0 = 0.3; the
\* critical density today in units of 10^8 Msun/Mpc^3.
Cosmologies ==
    {[H0 |-> 70, Om0 |-> 277, critical_density0 |-> 1360],
     [H0 |-> 100, Om0 |-> 300, critical_density0 |-> 2775]}

\* The values passed as r, radii in thousandths of the halo boundary: arrays
\* of no and of two radii, a float and None.
RadiusInputs == {NdArray(<<>>), NdArray(<<250, 1000>>), PyFloat(500), PyNone}

\* Concentrations passed as c, in thousandths.
ConcentrationInputs == {PyFloat(1000), PyFloat(5000)}

AllIdle == \A t \in Threads : pc[t] = "idle"

\* The caller holds no model instance.
NothingHeld == ~hod.exists /\ ~quench.exists /\ ~nfw.exists

\* The caller is between two calls: the last result has been taken.
CallerIdle == out.op = ""

NoCall == Call("", PyNone, FALSE, NoQuenchDict, Returned(<<>>), <<>>)

Init ==
    /\ hod = NoHod
    /\ quench = NoQuench
    /\ nfw = NoNfw
    /\ pc = [t \in Threads |-> "idle"]
    /\ building = [t \in Threads |-> 0]
    /\ obs = [t \in Threads |-> NoObs]
    /\ seen = NoObs
    /\ nbuilds = 0
    /\ out = NoCall

(***************************************************************************)
(* The occupation model's calls.                                           *)
(***************************************************************************)
\* Zheng07_HOD_Model(parameter_dict, threshold).  A constructor that raises
\* leaves the caller without an instance.
Construct(given, dict, threshold) ==
    LET r == Zheng07Init(given, dict, threshold)
    IN  /\ out' = Call("Zheng07_HOD_Model", threshold, given, NoQuenchDict, r.res, r.warned)
        /\ hod' = r.self
        /\ UNCHANGED <<quench, nfw, nbuilds, pc, building, obs, seen>>

\* Zheng07_HOD_Model(threshold=...), and Zheng07_HOD_Model() for None.
ConstructZheng07FromTable ==
    /\ NothingHeld /\ CallerIdle
    /\ \E threshold \in ThresholdInputs : Construct(FALSE, NoDict, threshold)

\* Zheng07_HOD_Model(parameter_dict=..., threshold=...)
ConstructZheng07FromDict ==
    /\ NothingHeld /\ CallerIdle
    /\ \E dict \in ExplicitDicts, threshold \in {PyNone, PyFloat(-72)} :
          Construct(TRUE, dict, threshold)

CallMeanNcen ==
    /\ hod.exists /\ CallerIdle
    /\ hod.parameter_dict.sigma_logM > 0
    /\ \E logM \in LogMInputs(LogMValues) :
          out' = Call("mean_ncen", logM, FALSE, NoQuenchDict,
                      mean_ncen(hod.parameter_dict, logM), <<>>)
    /\ UNCHANGED <<hod, quench, nfw, pc, building, obs, seen, nbuilds>>

\* The arithmetic of mean_nsat is modelled for whole-dex masses only.
CallMeanNsat ==
    /\ hod.exists /\ CallerIdle
    /\ \E logM \in LogMInputs(LogMValues) :
          LET res == mean_nsat(hod.parameter_dict, logM)
          IN  /\ (IsNdarray(logM) /\ HasLen(logM)) => Representable(hod.parameter_dict, logM)
              /\ out' = [Call("mean_nsat", logM, FALSE, NoQuenchDict, res, <<>>)
                            EXCEPT !.arg_after = LogMAfterStores(mean_nsat_array, logM, res)]
    /\ UNCHANGED <<hod, quench, nfw, pc, building, obs, seen, nbuilds>>

CallMeanConcentration ==
    /\ hod.exists /\ CallerIdle
    /\ \E logM \in LogMInputs(LogMValues) :
          out' = Call("mean_concentration", logM, FALSE, NoQuenchDict,
                      mean_concentration(logM), <<>>)
    /\ UNCHANGED <<hod, quench, nfw, pc, building, obs, seen, nbuilds>>

(***************************************************************************)
(* The quenching model's calls.                                            *)
(***************************************************************************)
\* vdB03_Quenching_Model(parameter_dict)
ConstructVdB03 ==
    /\ NothingHeld /\ CallerIdle
    /\ \E parameter_dict \in QuenchDicts :
          LET r == vdB03Init(parameter_dict)
          IN  /\ out' = Call("vdB03_Quenching_Model", PyNone, TRUE, parameter_dict, r.res, <<>>)
              /\ quench' = r.self
    /\ UNCHANGED <<hod, nfw, nbuilds, pc, building, obs, seen>>

CallMeanQuenchedFractionCentrals ==
    /\ quench.exists /\ CallerIdle
    /\ \E logM \in LogMInputs(QuenchValues) :
          LET res == mean_quenched_fraction_centrals(quench, logM)
          IN  out' = [Call("mean_quenched_fraction_centrals", logM, FALSE, NoQuenchDict,
                           res, <<>>)
                         EXCEPT !.arg_after =
                                   LogMAfterStores(mean_quenched_fractions_array, logM, res)]
    /\ UNCHANGED <<hod, quench, nfw, pc, building, obs, seen, nbuilds>>

CallMeanQuenchedFractionSatellites ==
    /\ quench.exists /\ CallerIdle
    /\ \E logM \in LogMInputs(QuenchValues) :
          LET res == mean_quenched_fraction_satellites(quench, logM)
          IN  out' = [Call("mean_quenched_fraction_satellites", logM, FALSE, NoQuenchDict,
                           res, <<>>)
                         EXCEPT !.arg_after =
                                   LogMAfterStores(mean_quenched_fractions_array, logM, res)]
    /\ UNCHANGED <<hod, quench, nfw, pc, building, obs, seen, nbuilds>>

(***************************************************************************)
(* The profile model: its constructor, and the threads that build and read *)
(* the lookup table.  build_inv_cumu_lookup_table takes no lock, so its    *)
(* two assignments to self are two steps another thread may come between.  *)
(***************************************************************************)
ConstructNFW ==
    /\ NothingHeld /\ CallerIdle
    /\ \E cosmology \in Cosmologies, build_inv_cumu_table \in BuildFlagInputs :
          LET self == NFWInit(cosmology, build_inv_cumu_table)
          IN  /\ nfw' = self
              /\ nbuilds' = IF self.has_func_table THEN 1 ELSE 0
              /\ out' = Call("NFWProfile", build_inv_cumu_table, FALSE, NoQuenchDict,
                             Returned(<<>>), <<>>)
    /\ UNCHANGED <<hod, quench, pc, building, obs, seen>>

\* density_profile(r, c), called by the holder of the instance while the
\* threads may be building or reading the table.
CallDensityProfile ==
    /\ nfw.exists /\ CallerIdle
    /\ \E r \in RadiusInputs, c \in ConcentrationInputs :
          out' = [Call("density_profile", r, FALSE, NoQuenchDict,
                       density_profile(nfw, r, c), <<>>) EXCEPT !.c = c]
    /\ UNCHANGED <<hod, quench, nfw, pc, building, obs, seen, nbuilds>>

\* cumulative_mass_PDF(r, c)
CallCumulativeMassPDF ==
    /\ nfw.exists /\ CallerIdle
    /\ \E r \in RadiusInputs, c \in ConcentrationInputs :
          out' = [Call("cumulative_mass_PDF", r, FALSE, NoQuenchDict,
                       cumulative_mass_PDF_call(nfw, r, c), <<>>) EXCEPT !.c = c]
    /\ UNCHANGED <<hod, quench, nfw, pc, building, obs, seen, nbuilds>>

\* Lines 197-216: the grids and the list of splines, local to the call.
BuildCompute(t) ==
    /\ nfw.exists
    /\ pc[t] = "idle"
    /\ nbuilds < MaxBuilds
    /\ nbuilds' = nbuilds + 1
    /\ building' = [building EXCEPT ![t] = nbuilds + 1]
    /\ pc' = [pc EXCEPT ![t] = "line217"]
    /\ UNCHANGED <<hod, quench, nfw, obs, seen, out>>

\* Line 217: self.cumu_inv_func_table = np.array(cumu_inv_funcs)
BuildStoreFuncs(t) ==
    /\ pc[t] = "line217"
    /\ nfw' = StoreFuncTable(nfw, building[t])
    /\ pc' = [pc EXCEPT ![t] = "line218"]
    /\ UNCHANGED <<hod, quench, building, obs, seen, nbuilds, out>>

\* Line 218: self.cumu_inv_conc_table = conc_array, and the call returns.
BuildStoreConc(t) ==
    /\ pc[t] = "line218"
    /\ nfw' = StoreConcTable(nfw, building[t])
    /\ pc' = [pc EXCEPT ![t] = "idle"]
    /\ building' = [building EXCEPT ![t] = 0]
    /\ UNCHANGED <<hod, quench, obs, seen, nbuilds, out>>

\* A reader of the table reads self.cumu_inv_func_table ...
ReadFuncTable(t) ==
    /\ nfw.exists
    /\ pc[t] = "idle"
    /\ obs' = [obs EXCEPT ![t] = [NoObs EXCEPT !.func_set = nfw.has_func_table,
                                               !.func_build = nfw.func_build]]
    /\ pc' = [pc EXCEPT ![t] = "read_conc"]
    /\ UNCHANGED <<hod, quench, nfw, building, seen, nbuilds, out>>

\* ... and then self.cumu_inv_conc_table.
ReadConcTable(t) ==
    /\ pc[t] = "read_conc"
    /\ seen' = [obs[t] EXCEPT !.conc_set = nfw.has_conc_table,
                               !.conc_build = nfw.conc_build,
                               !.complete = TRUE]
    /\ obs' = [obs EXCEPT ![t] = NoObs]
    /\ pc' = [pc EXCEPT ![t] = "idle"]
    /\ UNCHANGED <<hod, quench, nfw, building, nbuilds, out>>

(***************************************************************************)
(* The caller.                                                             *)
(***************************************************************************)
\* The caller takes the last call's result (or exception) and goes on.
TakeResult ==
    /\ ~CallerIdle
    /\ out' = NoCall
    /\ UNCHANGED <<hod, quench, nfw, pc, building, obs, seen, nbuilds>>

\* The caller lets go of the instance it holds, once no thread is using it.
DropInstance ==
    /\ ~NothingHeld /\ CallerIdle /\ AllIdle
    /\ hod' = NoHod
    /\ quench' = NoQuench
    /\ nfw' = NoNfw
    /\ nbuilds' = 0
    /\ seen' = NoObs
    /\ UNCHANGED <<pc, building, obs, out>>

Next ==
    \/ ConstructZheng07FromTable
    \/ ConstructZheng07FromDict
    \/ CallMeanNcen
    \/ CallMeanNsat
    \/ CallMeanConcentration
    \/ ConstructVdB03
    \/ CallMeanQuenchedFractionCentrals
    \/ CallMeanQuenchedFractionSatellites
    \/ ConstructNFW
    \/ CallDensityProfile
    \/ CallCumulativeMassPDF
    \/ \E t \in Threads : BuildCompute(t)
    \/ \E t \in Threads : BuildStoreFuncs(t)
    \/ \E t \in Threads : BuildStoreConc(t)
    \/ \E t \in Threads : ReadFuncTable(t)
    \/ \E t \in Threads : ReadConcTable(t)
    \/ TakeResult
    \/ DropInstance

Spec == Init /\ [][Next]_vars


(***************************************************************************)
(* The claims.                                                             *)
(***************************************************************************)
\* The thresholds of the literature table, -18, -18.5, ..., -22.
TabulatedThresholds == {-72 - 2 * k : k \in 0..8}

\* A threshold that is a number (not None, not a string, not an array).
IsNumericThreshold(x) == x.kind \in {"int", "float", "numpy.float64"}

\* The last call constructed an occupation model from the literature table.
ConstructedFromTable == out.op = "Zheng07_HOD_Model" /\ ~out.given

\* C1: constructing the occupation model with no parameter set and a numeric
\* threshold outside {-18, -18.5, ..., -22} fails, with an error of another
\* kind than the one raised for a non-numeric threshold, and yields no
\* parameter set.
C1_LookupErrorIsItsOwnKind ==
    (ConstructedFromTable /\ IsNumericThreshold(out.arg)
        /\ Float(out.arg) \notin TabulatedThresholds)
    => /\ out.res.raised # ""
       /\ out.res.raised # published_parameters(PyStr).res.raised
       /\ ~hod.exists

\* C2: for every threshold t of the table, construction resolves the
\* parameter set to the table's row at position (-18 - t)/0.5 (-18: logMmin_cen
\* 11.35 and sigma_logM 0.25, -22: the last row), and mean_ncen at the row's
\* logMmin_cen is exactly 0.5.
C2_ThresholdResolvesToItsRow ==
    /\ (ConstructedFromTable /\ IsNumericThreshold(out.arg)
           /\ Float(out.arg) \in TabulatedThresholds)
       => LET pos == (-72 - Float(out.arg)) \div 2
          IN  /\ out.res.raised = ""
              /\ hod.exists
              /\ hod.parameter_dict.logMmin_cen = logMmin_cen_array[pos + 1]
              /\ hod.parameter_dict.sigma_logM = sigma_logM_array[pos + 1]
              /\ hod.parameter_dict.logM0_sat = logM0_array[pos + 1]
              /\ hod.parameter_dict.logM1_sat = logM1_array[pos + 1]
              /\ hod.parameter_dict.alpha_sat = alpha_sat_array[pos + 1]
              /\ (Float(out.arg) = -72 =>
                     hod.parameter_dict.logMmin_cen = 1135 /\ hod.parameter_dict.sigma_logM = 25)
              /\ (Float(out.arg) = -88 =>
                     hod.parameter_dict.logMmin_cen = 1422 /\ hod.parameter_dict.sigma_logM = 77)
    /\ (out.op = "mean_ncen" /\ hod.has_threshold /\ out.arg.kind = "ndarray")
       => /\ out.res.raised = ""
          /\ \A i \in 1..Len(out.arg.v) :
                out.arg.v[i] = logMmin_cen_array[((-72 - hod.threshold) \div 2) + 1]
                => out.res.val[i] = 500

\* Reached: the model built for -22 evaluated mean_ncen at 14.22 and got 0.5.
C2_Witness ==
    /\ out.op = "mean_ncen" /\ hod.has_threshold /\ hod.threshold = -88
    /\ out.arg = NdArray(<<1422>>)
    /\ out.res.val = <<500>>

\* C3: constructing the occupation model with neither a parameter set nor a
\* threshold does not fail: it emits one advisory, sets the threshold to -19.5
\* and ends with the table's row for -19.5; with a threshold supplied no
\* advisory is emitted.
C3_DefaultThresholdWithAdvisory ==
    /\ (ConstructedFromTable /\ out.arg = PyNone)
       => /\ out.res.raised = ""
          /\ Len(out.warned) = 1
          /\ hod.exists /\ hod.has_threshold /\ hod.threshold = -78
          /\ hod.parameter_dict =
                [logMmin_cen |-> 1175, sigma_logM |-> 28, logM0_sat |-> 1169,
                 logM1_sat |-> 1301, alpha_sat |-> 106, fconc |-> 100]
    /\ (out.op = "Zheng07_HOD_Model" /\ out.arg # PyNone) => out.warned = <<>>

\* Reached: a construction with neither argument has completed.
C3_Witness ==
    ConstructedFromTable /\ out.arg = PyNone /\ hod.exists /\ out.warned # <<>>


\* C4: for a one-dimensional array logM, mean_nsat returns an array of the
\* same length whose i-th element is 0 when 10^logM[i] - M0 <= 0 and otherwise
\* mean_ncen(logM[i]) * ((10^logM[i] - M0)/M1)^alpha_sat of that same element;
\* every element is non-negative.
C4_MeanNsatElementwise ==
    (out.op = "mean_nsat" /\ out.arg.kind = "ndarray")
    => LET pd == hod.parameter_dict
           M0 == Pow10(pd.logM0_sat)
           M1 == Pow10(pd.logM1_sat)
           alpha == pd.alpha_sat \div 100
       IN  /\ out.res.raised = ""
           /\ Len(out.res.val) = Len(out.arg.v)
           /\ \A i \in 1..Len(out.arg.v) :
                 LET excess == Pow10(out.arg.v[i]) - M0
                 IN  /\ excess <= 0 => out.res.val[i] = 0
                     /\ excess > 0 =>
                           out.res.val[i] =
                              IDiv(MeanNcenAt(pd, out.arg.v[i]) * IPow(excess, alpha),
                                   IPow(M1, alpha))
                     /\ out.res.val[i] >= 0

\* Reached: an array whose first element is at M0 and whose second is above it,
\* answered with a zero and then a positive number.
C4_Witness ==
    /\ out.op = "mean_nsat" /\ out.arg.kind = "ndarray" /\ Len(out.arg.v) = 2
    /\ Pow10(out.arg.v[1]) = Pow10(hod.parameter_dict.logM0_sat)
    /\ out.res.val[1] = 0 /\ out.res.val[2] > 0

\* The coefficients the last call evaluated.
CoefficientsOf(op) ==
    IF op = "mean_quenched_fraction_centrals"
    THEN quench.central_quenching_polynomial_coefficients
    ELSE quench.satellite_quenching_polynomial_coefficients

QuenchedFractionCalls == {"mean_quenched_fraction_centrals", "mean_quenched_fraction_satellites"}

\* C5: every element returned by mean_quenched_fraction_centrals and
\* mean_quenched_fraction_satellites lies in [0,1]: a raw polynomial value
\* below 0 is returned as 0, one above 1 as 1, one in [0,1] unchanged.
C5_QuenchedFractionClamped ==
    (out.op \in QuenchedFractionCalls /\ out.arg.kind = "ndarray")
    => LET coefficients == CoefficientsOf(out.op)
           one == FracUnit * coefficients.den
       IN  /\ out.res.raised = ""
           /\ out.res.den = one
           /\ Len(out.res.val) = Len(out.arg.v)
           /\ \A i \in 1..Len(out.arg.v) :
                 LET raw == PolySum(coefficients.num, out.arg.v[i], 0)
                 IN  /\ 0 <= out.res.val[i] /\ out.res.val[i] <= one
                     /\ raw < 0 => out.res.val[i] = 0
                     /\ raw > one => out.res.val[i] = one
                     /\ (0 <= raw /\ raw <= one) => out.res.val[i] = raw

\* Reached: one array with a raw value below 0 and a raw value above 1.
C5_Witness ==
    /\ out.op \in QuenchedFractionCalls /\ out.arg.kind = "ndarray"
    /\ \E i, j \in 1..Len(out.arg.v) :
          /\ PolySum(CoefficientsOf(out.op).num, out.arg.v[i], 0) < 0
          /\ PolySum(CoefficientsOf(out.op).num, out.arg.v[j], 0) > out.res.den
          /\ out.res.val[i] = 0 /\ out.res.val[j] = out.res.den

\* The sequence holds some value twice.
HasRepeat(x) == \E i, j \in 1..Len(x) : i # j /\ x[i] = x[j]

\* C6: constructing the quenching model with a repeated abscissa fails with a
\* singular-matrix error that reaches the caller: no instance and no
\* coefficients are produced.
C6_RepeatedAbscissaIsSingular ==
    (out.op = "vdB03_Quenching_Model" /\ HasRepeat(out.pd.logM_abcissa))
    => /\ out.res.raised = "LinAlgError"
       /\ ~quench.exists
       /\ quench.central_quenching_polynomial_coefficients = NoCoefficients
       /\ quench.satellite_quenching_polynomial_coefficients = NoCoefficients

\* Reached: a construction with a repeated abscissa has raised.
C6_Witness ==
    /\ out.op = "vdB03_Quenching_Model" /\ HasRepeat(out.pd.logM_abcissa)
    /\ out.res.raised = "LinAlgError"

\* The threads inside build_inv_cumu_lookup_table.
Builders == {t \in Threads : pc[t] \in {"line217", "line218"}}

\* C7: build_inv_cumu_lookup_table is one exclusive write: two invocations on
\* one instance never interleave, and a reader never sees cumu_inv_func_table
\* without the cumu_inv_conc_table of the same build.
C7_BuildIsExclusive ==
    /\ Cardinality(Builders) <= 1
    /\ (seen.complete /\ seen.func_set)
       => (seen.conc_set /\ seen.conc_build = seen.func_build)

EvaluationCalls ==
    {"mean_ncen", "mean_nsat", "mean_concentration"} \cup QuenchedFractionCalls

Distinct(x) == ~HasRepeat(x)

\* The polynomial of the coefficients passes through the points (x[k], y[k]).
Interpolates(coefficients, x, y) ==
    /\ Len(coefficients.num) = Len(x)
    /\ \A k \in 1..Len(x) : PolySum(coefficients.num, x[k], 0) = y[k] * coefficients.den

\* Every ordinate lies in [0,1].
InUnitInterval(y) == \A k \in 1..Len(y) : 0 <= y[k] /\ y[k] <= FracUnit

\* C10: for N control points with pairwise distinct abscissas the solver
\* returns the N coefficients of the interpolating polynomial (the sum of
\* a_n x_k^n is y_k at every control point); so, with every ordinate in [0,1],
\* the quenched fractions evaluated at the abscissas are the ordinates.
C10_ExactInterpolation ==
    /\ (out.op = "vdB03_Quenching_Model" /\ Distinct(out.pd.logM_abcissa))
       => (out.res.raised = "" /\ quench.exists /\ quench.parameter_dict = out.pd)
    /\ quench.exists
       => LET pd == quench.parameter_dict
          IN  /\ Interpolates(quench.central_quenching_polynomial_coefficients,
                              pd.logM_abcissa, pd.central_ordinates)
              /\ Interpolates(quench.satellite_quenching_polynomial_coefficients,
                              pd.logM_abcissa, pd.satellite_ordinates)
    /\ (out.op \in QuenchedFractionCalls /\ out.arg = NdArray(quench.parameter_dict.logM_abcissa))
       => LET y == IF out.op = "mean_quenched_fraction_centrals"
                   THEN quench.parameter_dict.central_ordinates
                   ELSE quench.parameter_dict.satellite_ordinates
          IN  InUnitInterval(y)
              => \A k \in 1..Len(y) : out.res.val[k] * FracUnit = y[k] * out.res.den

\* Reached: a model of two control points with different ordinates, evaluated
\* at its abscissas.
C10_Witness ==
    /\ out.op = "mean_quenched_fraction_centrals"
    /\ Len(quench.parameter_dict.logM_abcissa) = 2
    /\ out.arg = NdArray(quench.parameter_dict.logM_abcissa)
    /\ quench.parameter_dict.central_ordinates[1] # quench.parameter_dict.central_ordinates[2]
    /\ InUnitInterval(quench.parameter_dict.central_ordinates)
    /\ out.res.val[1] # out.res.val[2]

(***************************************************************************)
(* C11                                                                     *)
(***************************************************************************)
PublicEvaluationCalls == EvaluationCalls \cup {"density_profile", "cumulative_mass_PDF"}

\* The step is a call of a public evaluation function, ended.
EvaluationStep == out.op = "" /\ out'.op \in PublicEvaluationCalls

\* C11: a call of a public evaluation function (mean_ncen, mean_nsat,
\* mean_concentration, mean_quenched_fraction_centrals,
\* mean_quenched_fraction_satellites, density_profile, cumulative_mass_PDF),
\* whether it returns or raises, leaves the instance as it was (parameter set,
\* threshold, polynomial coefficients, cosmic matter density, lookup table)
\* and leaves the caller's input array as it was passed.
C11_EvaluationLeavesStateUnchanged ==
    [][EvaluationStep
         => (/\ hod' = hod
             /\ quench' = quench
             /\ nfw' = nfw
             /\ out'.arg_after = out'.arg)]_vars

\* Reached: a quenched fraction evaluated over an array of two masses, one
\* element stored as 0 by line 302 and one as 1 by line 304, the caller's
\* array and the coefficients being what they were.
C11_Witness ==
    /\ out.op \in QuenchedFractionCalls /\ out.arg.kind = "ndarray"
    /\ out.res.raised = ""
    /\ \E i, j \in 1..Len(out.arg.v) :
          /\ PolySum(CoefficientsOf(out.op).num, out.arg.v[i], 0) < 0
          /\ out.res.val[i] = 0
          /\ PolySum(CoefficientsOf(out.op).num, out.arg.v[j], 0) > out.res.den
          /\ out.res.val[j] = out.res.den
    /\ out.arg_after = out.arg
    /\ quench.exists

=============================================================================
